---- MODULE Spec2Model ----
(***************************************************************************)
(* Model of stages_cycling: the segmenter parse_stages_csv (parser.py),    *)
(* the frame builders raw_stage_to_df / build_dfs (parser.py) and the      *)
(* summaries StageSummary.from_df / CycleWorkout.from_csv (models.py).     *)
(*                                                                         *)
(* A line of the export is a record: kw is the keyword the line starts     *)
(* with ("" when it starts with none), clock the <<minutes, seconds>> of   *)
(* its first field when that field is a MM:SS clock string (<<>> when it   *)
(* is not), cells its Miles, MPH, Watts, HR, RPM fields.  Miles are in     *)
(* hundredths of a mile and MPH in tenths, so all arithmetic is exact.     *)
(***************************************************************************)
EXTENDS Integers, Sequences, FiniteSets, TLC

VARIABLES entry,          \* the function the run entered
          pc,             \* position in that function
          filepath,       \* words of the file name's stem
          file,           \* every line of the data file, header included
          pos,            \* index of the next line the file iterator yields
          stages, summaries, data_chunk,   \* locals of parse_stages_csv
          flushed,        \* history: the groups in the order they were appended
          workout_date, class_type,        \* locals of from_csv
          raw_stages, drop_hr,             \* arguments of build_dfs / raw_stage_to_df
          stage_frames, full_ride,         \* results of build_dfs
          stage_summaries,                 \* local of from_csv
          result          \* what the entered function returned or raised

vars == <<entry, pc, filepath, file, pos, stages, summaries, data_chunk, flushed,
          workout_date, class_type, raw_stages, drop_hr, stage_frames, full_ride,
          stage_summaries, result>>

----------------------------------------------------------------------------
(* Bounds *)
MaxLines == 4
MaxRows == 2
MaxStages == 2
MaxDateParts == 3
MaxWords == 4

(* Program constants *)
N_HEADER_LINES == 3
COL_HEADERS == <<"Time", "Miles", "MPH", "Watts", "HR", "RPM">>

----------------------------------------------------------------------------
(* Generic helpers *)
Range(s) == {s[i] : i \in DOMAIN s}

SeqsUpTo(S, n) == UNION {[1..k -> S] : k \in 0..n}

RECURSIVE Flatten(_)
Flatten(groups) ==
    IF groups = <<>> THEN <<>> ELSE Head(groups) \o Flatten(Tail(groups))

Count(s, P(_)) == Cardinality({i \in DOMAIN s : P(s[i])})

None == [ok |-> FALSE, exc |-> "None"]
Raise(e) == [ok |-> FALSE, exc |-> e]
Ok(v) == [ok |-> TRUE, exc |-> "", val |-> v]

----------------------------------------------------------------------------
(* Lines of the export *)
TextLine(k) == [kw |-> k, clock |-> <<>>, cells |-> <<>>]
DataRow(mm, ss, miles, mph) ==
    [kw |-> "", clock |-> <<mm, ss>>, cells |-> <<miles, mph, 80, 110, 70>>]

StageLine == TextLine("Stage")
RideLine == TextLine("Ride")
KJLine == TextLine("KJ")
AvgLine == TextLine("Avg")

Header == [i \in 1..N_HEADER_LINES |-> TextLine("Header")]

\* str.startswith, for the keywords the segmenter tests
StartsWith(line, prefix) == line.kw = prefix

IsDataRow(line) == line.clock # <<>>

\* the lines a segmenter run is fed
SegLines == {StageLine, RideLine, KJLine, AvgLine,
             DataRow(0, 1, 10, 120), DataRow(0, 2, 20, 125)}

----------------------------------------------------------------------------
(* Frames: columns is the tuple of column names, index the elapsed seconds *)
(* of each row, data the cells of each row in column order.                *)

IndexOf(seq, x) == CHOOSE i \in DOMAIN seq : seq[i] = x

RECURSIVE Sum(_)
Sum(s) == IF s = <<>> THEN 0 ELSE Head(s) + Sum(Tail(s))

Max(s) == CHOOSE x \in Range(s) : \A y \in Range(s) : y <= x
Min(s) == CHOOSE x \in Range(s) : \A y \in Range(s) : x <= y

Column(frame, name) ==
    LET c == IndexOf(frame.columns, name)
    IN  [r \in DOMAIN frame.data |-> frame.data[r][c]]

\* DataFrame.drop(columns=name)
DropColumn(frame, name) ==
    LET c == IndexOf(frame.columns, name)
        without(row) == SubSeq(row, 1, c - 1) \o SubSeq(row, c + 1, Len(row))
    IN  [columns |-> without(frame.columns),
         index |-> frame.index,
         data |-> [r \in DOMAIN frame.data |-> without(frame.data[r])]]

\* pd.to_datetime(clock, format="%M:%S") - pd.to_datetime("00:00"), in seconds
ElapsedSeconds(clock) == (clock[1] * 60 + clock[2]) - (0 * 60 + 0)

\* raw_stage_to_df: read_csv of the joined lines (nothing to parse when there
\* is no line), the index converted from MM:SS clock strings (a first field
\* that is no clock string does not match the format), HR dropped on request
raw_stage_to_df(raw_stage, drop) ==
    IF raw_stage = <<>>
    THEN Raise("EmptyDataError")
    ELSE IF \E i \in DOMAIN raw_stage : ~IsDataRow(raw_stage[i])
    THEN Raise("ValueError")
    ELSE LET df == [columns |-> Tail(COL_HEADERS),
                    index |-> [i \in DOMAIN raw_stage |-> ElapsedSeconds(raw_stage[i].clock)],
                    data |-> [i \in DOMAIN raw_stage |-> raw_stage[i].cells]]
         IN  Ok(IF drop THEN DropColumn(df, "HR") ELSE df)

\* variant: pd.concat(frames, ignore_index=True), the index renumbered from 0
Concat_Renumber(frames) ==
    IF frames = <<>>
    THEN Raise("ValueError")
    ELSE Ok([columns |-> frames[1].columns,
             index |-> [i \in DOMAIN Flatten([k \in DOMAIN frames |-> frames[k].index]) |-> i - 1],
             data |-> Flatten([i \in DOMAIN frames |-> frames[i].data])])

\* pd.concat(frames) of frames with the same columns: rows and index values
\* are stacked as they are
Concat(frames) ==
    IF frames = <<>>
    THEN Raise("ValueError")
    ELSE Ok([columns |-> frames[1].columns,
             index |-> Flatten([i \in DOMAIN frames |-> frames[i].index]),
             data |-> Flatten([i \in DOMAIN frames |-> frames[i].data])])

\* DataFrame.describe(): per column the mean (as <<sum, count>>), min and max
Describe(frame) ==
    [c \in DOMAIN frame.columns |->
        LET col == Column(frame, frame.columns[c])
        IN  [name |-> frame.columns[c],
             mean |-> <<Sum(col), Len(col)>>,
             min |-> Min(col),
             max |-> Max(col)]]

\* stage_stats.loc[stat]: the statistic of every column, in column order
StatRow(stats, stat) ==
    [c \in DOMAIN stats |->
        CASE stat = "mean" -> stats[c].mean
          [] stat = "min" -> stats[c].min
          [] stat = "max" -> stats[c].max]

\* variant: total_distance is the raw maximum odometer reading
from_df_RawMax(stage, name) ==
    IF stage.index = <<>>
    THEN Raise("IndexError")
    ELSE LET stage_stats == Describe(stage)
             miles == stage_stats[IndexOf(stage.columns, "Miles")]
             means == StatRow(stage_stats, "mean")
             maxes == StatRow(stage_stats, "max")
         IN  IF Len(means) # 5
             THEN Raise("ValueError")
             ELSE Ok([name |-> name,
                      total_seconds |-> stage.index[Len(stage.index)] - stage.index[1],
                      total_distance |-> miles.max,
                      avg_speed |-> means[2], avg_watts |-> means[3],
                      avg_hr |-> means[4], avg_rpm |-> means[5],
                      max_speed |-> maxes[2], max_watts |-> maxes[3],
                      max_hr |-> maxes[4], max_rpm |-> maxes[5]])

\* StageSummary.from_df
from_df(stage, name) ==
    IF stage.index = <<>>
    THEN Raise("IndexError")
    ELSE LET stage_stats == Describe(stage)
             miles == stage_stats[IndexOf(stage.columns, "Miles")]
             means == StatRow(stage_stats, "mean")
             maxes == StatRow(stage_stats, "max")
         IN  IF Len(means) # 5
             THEN Raise("ValueError")
             ELSE Ok([name |-> name,
                      total_seconds |-> stage.index[Len(stage.index)] - stage.index[1],
                      total_distance |-> miles.max - miles.min,
                      avg_speed |-> means[2], avg_watts |-> means[3],
                      avg_hr |-> means[4], avg_rpm |-> means[5],
                      max_speed |-> maxes[2], max_watts |-> maxes[3],
                      max_hr |-> maxes[4], max_rpm |-> maxes[5]])

\* variant: empty stage groups are skipped instead of parsed
build_dfs_SkipEmpty(groups) ==
    LET kept == SelectSeq(groups, LAMBDA g : g # <<>>)
        parsed == [i \in DOMAIN kept |-> raw_stage_to_df(kept[i], FALSE)]
    IN  IF \E i \in DOMAIN parsed : ~parsed[i].ok
        THEN parsed[CHOOSE i \in DOMAIN parsed :
                        ~parsed[i].ok /\ \A j \in 1..(i - 1) : parsed[j].ok]
        ELSE LET frames == [i \in DOMAIN parsed |-> parsed[i].val]
                 whole == Concat(frames)
             IN  IF whole.ok THEN Ok(<<frames, whole.val>>) ELSE whole

\* build_dfs: every stage parsed with the default drop_hr, then concatenated
build_dfs(groups) ==
    LET parsed == [i \in DOMAIN groups |-> raw_stage_to_df(groups[i], FALSE)]
    IN  IF \E i \in DOMAIN parsed : ~parsed[i].ok
        THEN parsed[CHOOSE i \in DOMAIN parsed :
                        ~parsed[i].ok /\ \A j \in 1..(i - 1) : parsed[j].ok]
        ELSE LET frames == [i \in DOMAIN parsed |-> parsed[i].val]
                 whole == Concat(frames)
             IN  IF whole.ok THEN Ok(<<frames, whole.val>>) ELSE whole

----------------------------------------------------------------------------
(* File names: a stem is its sequence of whitespace-separated words, a     *)
(* word a sequence of characters.                                          *)

Digits == <<"0", "1", "2", "3", "4", "5", "6", "7", "8", "9">>
IsDigit(c) == c \in Range(Digits)
DigitVal(c) == IndexOf(Digits, c) - 1

\* str.split("-")
RECURSIVE SplitDash(_)
SplitDash(w) ==
    IF \A i \in DOMAIN w : w[i] # "-"
    THEN <<w>>
    ELSE LET d == CHOOSE i \in DOMAIN w : w[i] = "-" /\ \A j \in 1..(i - 1) : w[j] # "-"
         IN  <<SubSeq(w, 1, d - 1)>> \o SplitDash(SubSeq(w, d + 1, Len(w)))

\* int(substr) for a string of decimal digits
RECURSIVE DecimalValue(_)
DecimalValue(w) ==
    IF w = <<>> THEN 0
    ELSE 10 * DecimalValue(SubSeq(w, 1, Len(w) - 1)) + DigitVal(w[Len(w)])

ParseInt(w) ==
    IF w # <<>> /\ \A i \in DOMAIN w : IsDigit(w[i])
    THEN Ok(DecimalValue(w))
    ELSE Raise("ValueError")

IsLeap(y) == (y % 4 = 0 /\ y % 100 # 0) \/ y % 400 = 0
DaysInMonth(y, m) ==
    IF m = 2 THEN (IF IsLeap(y) THEN 29 ELSE 28)
    ELSE IF m \in {4, 6, 9, 11} THEN 30 ELSE 31

\* dt.date(*args)
Date(args) ==
    IF Len(args) # 3
    THEN Raise("TypeError")
    ELSE IF /\ args[1] \in 1..9999
            /\ args[2] \in 1..12
            /\ args[3] \in 1..DaysInMonth(args[1], args[2])
    THEN Ok([year |-> args[1], month |-> args[2], day |-> args[3]])
    ELSE Raise("ValueError")

\* variant: a stem with fewer than three words gets empty defaults
ParseStem_Defaults(words) ==
    LET padded == words \o SubSeq(<<<<"1", "-", "1", "-", "1">>, <<>>, <<>>>>,
                                  Len(words) + 1, 3)
        date_str == padded[1]
        class_type_ == SubSeq(padded, 3, Len(padded))
        ints == [i \in DOMAIN SplitDash(date_str) |-> ParseInt(SplitDash(date_str)[i])]
    IN  IF \E i \in DOMAIN ints : ~ints[i].ok
        THEN Raise("ValueError")
        ELSE LET d == Date([i \in DOMAIN ints |-> ints[i].val])
             IN  IF d.ok THEN Ok([workout_date |-> d.val, class_type |-> class_type_])
                 ELSE d

\* from_csv, the file name: stem.split(maxsplit=2) unpacked into three names,
\* then the date built from the integers of the first word
ParseStem(words) ==
    IF Len(words) < 3
    THEN Raise("ValueError")
    ELSE LET date_str == words[1]
             class_type_ == SubSeq(words, 3, Len(words))
             ints == [i \in DOMAIN SplitDash(date_str) |-> ParseInt(SplitDash(date_str)[i])]
         IN  IF \E i \in DOMAIN ints : ~ints[i].ok
             THEN Raise("ValueError")
             ELSE LET d == Date([i \in DOMAIN ints |-> ints[i].val])
                  IN  IF d.ok THEN Ok([workout_date |-> d.val, class_type |-> class_type_])
                      ELSE d

\* the words file names are built from
RECURSIVE JoinDash(_)
JoinDash(parts) ==
    IF Len(parts) = 1 THEN parts[1]
    ELSE parts[1] \o <<"-">> \o JoinDash(Tail(parts))

DateParts == {<<>>, <<"2", "0", "2", "3">>, <<"2", "3">>, <<"0", "2">>, <<"5">>,
              <<"1", "3">>, <<"3", "0">>, <<"x">>}
DateWords == {JoinDash(ps) : ps \in SeqsUpTo(DateParts, MaxDateParts) \ {<<>>}}
OtherWords == [i \in 1..(MaxWords - 1) |-> IF i = 1 THEN <<"4", "5", "m">> ELSE <<"P", "Z">>]
Stems == {<<>>} \cup {<<w>> \o SubSeq(OtherWords, 1, k) : w \in DateWords, k \in 0..(MaxWords - 1)}
GoodStem == <<JoinDash(<<<<"2", "0", "2", "3">>, <<"0", "2">>, <<"0", "5">>>>)>>
            \o SubSeq(OtherWords, 1, 2)

----------------------------------------------------------------------------
(* parse_stages_csv *)

\* variant: the flush at a transition marker is skipped when the buffer is empty
LoopBody_FlushNonEmpty(st, line) ==
    LET marker == (StartsWith(line, "Stage") \/ StartsWith(line, "Ride"))
                  /\ st.data_chunk # <<>>
        stages1 == IF marker THEN Append(st.stages, st.data_chunk) ELSE st.stages
        flushed1 == IF marker
                    THEN Append(st.flushed, [kind |-> "stage", group |-> st.data_chunk])
                    ELSE st.flushed
        chunk1 == IF marker THEN <<>> ELSE st.data_chunk
    IN  IF StartsWith(line, "KJ")
        THEN [stages |-> stages1,
              summaries |-> Append(st.summaries, Append(chunk1, line)),
              data_chunk |-> <<>>,
              flushed |-> Append(flushed1, [kind |-> "summary", group |-> Append(chunk1, line)])]
        ELSE [stages |-> stages1,
              summaries |-> st.summaries,
              data_chunk |-> Append(chunk1, line),
              flushed |-> flushed1]

\* variant: only the stage keyword is a transition marker
LoopBody_StageOnly(st, line) ==
    LET marker == StartsWith(line, "Stage")
        stages1 == IF marker THEN Append(st.stages, st.data_chunk) ELSE st.stages
        flushed1 == IF marker
                    THEN Append(st.flushed, [kind |-> "stage", group |-> st.data_chunk])
                    ELSE st.flushed
        chunk1 == IF marker THEN <<>> ELSE st.data_chunk
    IN  IF StartsWith(line, "KJ")
        THEN [stages |-> stages1,
              summaries |-> Append(st.summaries, Append(chunk1, line)),
              data_chunk |-> <<>>,
              flushed |-> Append(flushed1, [kind |-> "summary", group |-> Append(chunk1, line)])]
        ELSE [stages |-> stages1,
              summaries |-> st.summaries,
              data_chunk |-> Append(chunk1, line),
              flushed |-> flushed1]

\* variant: the transition marker line is not appended to the new buffer
LoopBody_MarkerDropped(st, line) ==
    LET marker == StartsWith(line, "Stage") \/ StartsWith(line, "Ride")
        stages1 == IF marker THEN Append(st.stages, st.data_chunk) ELSE st.stages
        flushed1 == IF marker
                    THEN Append(st.flushed, [kind |-> "stage", group |-> st.data_chunk])
                    ELSE st.flushed
        chunk1 == IF marker THEN <<>> ELSE st.data_chunk
    IN  IF StartsWith(line, "KJ")
        THEN [stages |-> stages1,
              summaries |-> Append(st.summaries, Append(chunk1, line)),
              data_chunk |-> <<>>,
              flushed |-> Append(flushed1, [kind |-> "summary", group |-> Append(chunk1, line)])]
        ELSE [stages |-> stages1,
              summaries |-> st.summaries,
              data_chunk |-> IF marker THEN chunk1 ELSE Append(chunk1, line),
              flushed |-> flushed1]

\* variant: the `continue` after the summary flush is missing
LoopBody_NoContinue(st, line) ==
    LET marker == StartsWith(line, "Stage") \/ StartsWith(line, "Ride")
        stages1 == IF marker THEN Append(st.stages, st.data_chunk) ELSE st.stages
        flushed1 == IF marker
                    THEN Append(st.flushed, [kind |-> "stage", group |-> st.data_chunk])
                    ELSE st.flushed
        chunk1 == IF marker THEN <<>> ELSE st.data_chunk
    IN  IF StartsWith(line, "KJ")
        THEN [stages |-> stages1,
              summaries |-> Append(st.summaries, Append(chunk1, line)),
              data_chunk |-> <<line>>,
              flushed |-> Append(flushed1, [kind |-> "summary", group |-> Append(chunk1, line)])]
        ELSE [stages |-> stages1,
              summaries |-> st.summaries,
              data_chunk |-> Append(chunk1, line),
              flushed |-> flushed1]

\* one pass of the body of `for line in f`
LoopBody(st, line) ==
    LET marker == StartsWith(line, "Stage") \/ StartsWith(line, "Ride")
        stages1 == IF marker THEN Append(st.stages, st.data_chunk) ELSE st.stages
        flushed1 == IF marker
                    THEN Append(st.flushed, [kind |-> "stage", group |-> st.data_chunk])
                    ELSE st.flushed
        chunk1 == IF marker THEN <<>> ELSE st.data_chunk
    IN  IF StartsWith(line, "KJ")
        THEN [stages |-> stages1,
              summaries |-> Append(st.summaries, Append(chunk1, line)),
              data_chunk |-> <<>>,
              flushed |-> Append(flushed1, [kind |-> "summary", group |-> Append(chunk1, line)])]
        ELSE [stages |-> stages1,
              summaries |-> st.summaries,
              data_chunk |-> Append(chunk1, line),
              flushed |-> flushed1]

\* variant: the final flush is not guarded by `if data_chunk`
LoopElse_Always(st) ==
    [st EXCEPT !.stages = Append(st.stages, st.data_chunk),
               !.flushed = Append(st.flushed, [kind |-> "stage", group |-> st.data_chunk])]

\* the else clause of the for loop
LoopElse(st) ==
    IF st.data_chunk # <<>>
    THEN [st EXCEPT !.stages = Append(st.stages, st.data_chunk),
                    !.flushed = Append(st.flushed, [kind |-> "stage", group |-> st.data_chunk])]
    ELSE st

ParserState == [stages |-> stages, summaries |-> summaries,
                data_chunk |-> data_chunk, flushed |-> flushed]

\* the post-header lines of the file
Body == SubSeq(file, N_HEADER_LINES + 1, Len(file))

\* with data_file.open: skip the header lines
OpenFile ==
    /\ pc = "open"
    /\ pos' = (IF Len(file) < N_HEADER_LINES THEN Len(file) ELSE N_HEADER_LINES) + 1
    /\ pc' = "loop"
    /\ UNCHANGED <<entry, filepath, file, stages, summaries, data_chunk, flushed,
                   workout_date, class_type, raw_stages, drop_hr, stage_frames,
                   full_ride, stage_summaries, result>>

\* one iteration of `for line in f`
ParseLine ==
    /\ pc = "loop"
    /\ pos <= Len(file)
    /\ \E st \in {LoopBody(ParserState, file[pos])} :
        /\ stages' = st.stages
        /\ summaries' = st.summaries
        /\ data_chunk' = st.data_chunk
        /\ flushed' = st.flushed
    /\ pos' = pos + 1
    /\ UNCHANGED <<entry, pc, filepath, file, workout_date, class_type, raw_stages,
                   drop_hr, stage_frames, full_ride, stage_summaries, result>>

\* the iterator is exhausted: the loop's else clause, then return
ParseEnd ==
    /\ pc = "loop"
    /\ pos > Len(file)
    /\ \E st \in {LoopElse(ParserState)} :
        /\ stages' = st.stages
        /\ flushed' = st.flushed
        /\ IF entry = "from_csv"
           THEN /\ raw_stages' = st.stages
                /\ pc' = "build"
                /\ result' = result
           ELSE /\ raw_stages' = raw_stages
                /\ pc' = "done"
                /\ result' = Ok(<<st.stages, summaries>>)
    /\ UNCHANGED <<entry, filepath, file, pos, summaries, data_chunk, workout_date,
                   class_type, drop_hr, stage_frames, full_ride, stage_summaries>>

InitParse ==
    /\ entry = "parse_stages_csv"
    /\ pc = "open"
    /\ filepath = <<>>
    /\ file \in {Header \o b : b \in SeqsUpTo(SegLines, MaxLines)}
    /\ pos = 1
    /\ stages = <<>> /\ summaries = <<>> /\ data_chunk = <<>> /\ flushed = <<>>
    /\ workout_date = None /\ class_type = None
    /\ raw_stages = <<>> /\ drop_hr = FALSE
    /\ stage_frames = <<>> /\ full_ride = None
    /\ stage_summaries = <<>>
    /\ result = None

NextParse == OpenFile \/ ParseLine \/ ParseEnd

SpecParse == InitParse /\ [][NextParse]_vars

----------------------------------------------------------------------------
(* CycleWorkout.from_csv *)

\* from_csv: the file name is taken apart before the file is opened
SplitStem ==
    /\ pc = "stem"
    /\ \E r \in {ParseStem(filepath)} :
        IF r.ok
        THEN /\ workout_date' = r.val.workout_date
             /\ class_type' = r.val.class_type
             /\ pc' = "open"
             /\ result' = result
        ELSE /\ pc' = "raised"
             /\ result' = r
             /\ UNCHANGED <<workout_date, class_type>>
    /\ UNCHANGED <<entry, filepath, file, pos, stages, summaries, data_chunk, flushed,
                   raw_stages, drop_hr, stage_frames, full_ride, stage_summaries>>

\* stages, full_ride = build_dfs(raw_stages)
BuildDfs ==
    /\ pc = "build"
    /\ \E r \in {build_dfs(raw_stages)} :
        IF r.ok
        THEN /\ stage_frames' = r.val[1]
             /\ full_ride' = r.val[2]
             /\ pc' = "summarize"
             /\ result' = result
        ELSE /\ pc' = "raised"
             /\ result' = r
             /\ UNCHANGED <<stage_frames, full_ride>>
    /\ UNCHANGED <<entry, filepath, file, pos, stages, summaries, data_chunk, flushed,
                   workout_date, class_type, raw_stages, drop_hr, stage_summaries>>

\* the full ride summarized as the "0th" stage, then every stage in order
Summaries(ride, frames) ==
    <<from_df(ride, <<"Full Ride">>)>>
    \o [i \in DOMAIN frames |-> from_df(frames[i], <<"Stage", i>>)]

Summarize ==
    /\ pc = "summarize"
    /\ \E rs \in {Summaries(full_ride, stage_frames)} :
        IF \A i \in DOMAIN rs : rs[i].ok
        THEN /\ stage_summaries' = [i \in DOMAIN rs |-> rs[i].val]
             /\ pc' = IF entry = "from_csv" THEN "return" ELSE "done"
             /\ result' = IF entry = "from_csv" THEN result
                          ELSE Ok([i \in DOMAIN rs |-> rs[i].val])
        ELSE /\ pc' = "raised"
             /\ result' = rs[CHOOSE i \in DOMAIN rs :
                                ~rs[i].ok /\ \A j \in 1..(i - 1) : rs[j].ok]
             /\ UNCHANGED stage_summaries
    /\ UNCHANGED <<entry, filepath, file, pos, stages, summaries, data_chunk, flushed,
                   workout_date, class_type, raw_stages, drop_hr, stage_frames, full_ride>>

\* return cls(...)
Return ==
    /\ pc = "return"
    /\ result' = Ok([workout_date |-> workout_date,
                     class_type |-> class_type,
                     full_ride |-> full_ride,
                     full_ride_summary |-> stage_summaries[1],
                     stages |-> stage_frames,
                     stage_summaries |-> Tail(stage_summaries)])
    /\ pc' = "done"
    /\ UNCHANGED <<entry, filepath, file, pos, stages, summaries, data_chunk, flushed,
                   workout_date, class_type, raw_stages, drop_hr, stage_frames,
                   full_ride, stage_summaries>>

\* files used with the full range of file names
SampleFiles == {Header \o <<DataRow(0, 1, 10, 120), DataRow(0, 2, 20, 125)>>,
                Header \o <<StageLine, KJLine, DataRow(0, 1, 10, 120)>>}

InitCsv ==
    /\ entry = "from_csv"
    /\ pc = "stem"
    /\ \/ filepath \in Stems /\ file \in SampleFiles
       \/ filepath = GoodStem
          /\ file \in {Header \o b : b \in SeqsUpTo(SegLines, MaxLines)}
    /\ pos = 1
    /\ stages = <<>> /\ summaries = <<>> /\ data_chunk = <<>> /\ flushed = <<>>
    /\ workout_date = None /\ class_type = None
    /\ raw_stages = <<>> /\ drop_hr = FALSE
    /\ stage_frames = <<>> /\ full_ride = None
    /\ stage_summaries = <<>>
    /\ result = None

NextCsv == SplitStem \/ OpenFile \/ ParseLine \/ ParseEnd \/ BuildDfs \/ Summarize \/ Return

SpecCsv == InitCsv /\ [][NextCsv]_vars

----------------------------------------------------------------------------
(* build_dfs followed by the summaries, on given stage groups *)

BuildRows == {DataRow(0, 1, 10, 120), DataRow(0, 2, 10, 120), DataRow(1, 0, 25, 125)}

InitBuild ==
    /\ entry = "build_dfs"
    /\ pc = "build"
    /\ filepath = <<>>
    /\ file = <<>>
    /\ pos = 1
    /\ stages = <<>> /\ summaries = <<>> /\ data_chunk = <<>> /\ flushed = <<>>
    /\ workout_date = None /\ class_type = None
    /\ raw_stages \in SeqsUpTo(SeqsUpTo(BuildRows, MaxRows), MaxStages)
    /\ drop_hr = FALSE
    /\ stage_frames = <<>> /\ full_ride = None
    /\ stage_summaries = <<>>
    /\ result = None

NextBuild == BuildDfs \/ Summarize

SpecBuild == InitBuild /\ [][NextBuild]_vars

----------------------------------------------------------------------------
(* raw_stage_to_df followed by StageSummary.from_df, on one stage group *)

StageRows == {DataRow(c[1], c[2], m, v) :
                c \in {<<0, 1>>, <<0, 2>>, <<1, 0>>}, m \in {0, 10, 25}, v \in {120}}
             \cup {AvgLine}

\* df = raw_stage_to_df(raw_stage, drop_hr)
ToFrame ==
    /\ pc = "to_df"
    /\ \E r \in {raw_stage_to_df(raw_stages[1], drop_hr)} :
        IF r.ok
        THEN /\ stage_frames' = <<r.val>>
             /\ pc' = "from_df"
             /\ result' = result
        ELSE /\ pc' = "raised"
             /\ result' = r
             /\ UNCHANGED stage_frames
    /\ UNCHANGED <<entry, filepath, file, pos, stages, summaries, data_chunk, flushed,
                   workout_date, class_type, raw_stages, drop_hr, full_ride,
                   stage_summaries>>

\* StageSummary.from_df(df, name="Stage 1")
SummarizeStage ==
    /\ pc = "from_df"
    /\ \E r \in {from_df(stage_frames[1], <<"Stage", 1>>)} :
        /\ result' = r
        /\ pc' = IF r.ok THEN "done" ELSE "raised"
        /\ stage_summaries' = IF r.ok THEN <<r.val>> ELSE stage_summaries
    /\ UNCHANGED <<entry, filepath, file, pos, stages, summaries, data_chunk, flushed,
                   workout_date, class_type, raw_stages, drop_hr, stage_frames, full_ride>>

InitStage ==
    /\ entry = "raw_stage_to_df"
    /\ pc = "to_df"
    /\ filepath = <<>>
    /\ file = <<>>
    /\ pos = 1
    /\ stages = <<>> /\ summaries = <<>> /\ data_chunk = <<>> /\ flushed = <<>>
    /\ workout_date = None /\ class_type = None
    /\ raw_stages \in {<<g>> : g \in SeqsUpTo(StageRows, MaxRows)}
    /\ drop_hr \in BOOLEAN
    /\ stage_frames = <<>> /\ full_ride = None
    /\ stage_summaries = <<>>
    /\ result = None

NextStage == ToFrame \/ SummarizeStage

SpecStage == InitStage /\ [][NextStage]_vars

----------------------------------------------------------------------------
(* Properties of parse_stages_csv, checked under SpecParse *)

IsMarker(line) == StartsWith(line, "Stage") \/ StartsWith(line, "Ride")
IsKJ(line) == StartsWith(line, "KJ")
ParseReturned == entry = "parse_stages_csv" /\ pc = "done"

\* the scenario input: a stage line, two data rows, a KJ line
ScenarioInput ==
    /\ Len(Body) = 4
    /\ StartsWith(Body[1], "Stage")
    /\ IsDataRow(Body[2]) /\ IsDataRow(Body[3])
    /\ StartsWith(Body[4], "KJ")

\* C1 as stated: for the input <<stage line, row, row, KJ line>> the result is
\* one stage group holding the two rows and one summary group holding the KJ line.
C1_Original ==
    (ParseReturned /\ ScenarioInput) =>
        /\ stages = << <<Body[2], Body[3]>> >>
        /\ summaries = << <<Body[4]>> >>

\* C1 amended: for the input <<stage line, row, row, KJ line>> the result is one
\* stage group that is empty (the buffer flushed at the stage line) and one
\* summary group that holds all four lines in order.
C1_Amended ==
    (ParseReturned /\ ScenarioInput) =>
        /\ stages = << <<>> >>
        /\ summaries = << Body >>

C1_Witness ==
    /\ ParseReturned /\ ScenarioInput
    /\ Body[2] # Body[3]
    /\ Len(summaries) = 1 /\ Len(summaries[1]) = 4

\* exactly one summary table (marker line .. KJ line), then a non-empty
\* trailing block with neither marker nor KJ line
OneTableThenTrailing(b) ==
    \E i, j \in DOMAIN b :
        /\ i < j /\ j < Len(b)
        /\ IsMarker(b[i]) /\ IsKJ(b[j])
        /\ \A k \in DOMAIN b : (IsMarker(b[k]) => k = i) /\ (IsKJ(b[k]) => k = j)

\* C5: an input with exactly one embedded summary table followed by an
\* unterminated trailing block yields exactly 2 stage groups and 1 summary group.
C5_TwoStagesOneSummary ==
    (ParseReturned /\ OneTableThenTrailing(Body)) =>
        Len(stages) = 2 /\ Len(summaries) = 1

C5_Witness ==
    /\ ParseReturned /\ OneTableThenTrailing(Body)
    /\ IsMarker(Body[1])
    /\ Len(stages) = 2 /\ stages[1] = <<>> /\ stages[2] # <<>>

Consumed == SubSeq(file, N_HEADER_LINES + 1, pos - 1)

\* C8: the number of stage groups is the number of transition-marker lines, plus
\* one iff the buffer is non-empty at end of input; a marker line flushes the
\* buffer and becomes the first line of the new buffer.
C8_StageGroupCount ==
    /\ (entry = "parse_stages_csv" /\ pc = "loop") =>
          /\ Len(stages) = Count(Consumed, IsMarker)
          /\ (Consumed # <<>> /\ IsMarker(Consumed[Len(Consumed)])) =>
                data_chunk = <<Consumed[Len(Consumed)]>>
    /\ ParseReturned =>
          Len(stages) = Count(Body, IsMarker) + (IF data_chunk # <<>> THEN 1 ELSE 0)

C8_Witness ==
    /\ ParseReturned
    /\ Count(Body, IsMarker) = 2
    /\ \E i \in DOMAIN Body : StartsWith(Body[i], "Ride")
    /\ data_chunk # <<>>
    /\ Len(stages) = 3

Groups(kind) ==
    LET sel == SelectSeq(flushed, LAMBDA g : g.kind = kind)
    IN  [i \in DOMAIN sel |-> sel[i].group]

\* C9: every input line is in exactly one output group, unchanged; joining the
\* groups in the order they were flushed gives back the input.
C9_Conservation ==
    ParseReturned =>
        /\ Flatten([i \in DOMAIN flushed |-> flushed[i].group]) = Body
        /\ Groups("stage") = stages
        /\ Groups("summary") = summaries

C9_Witness ==
    /\ ParseReturned
    /\ Len(Body) = MaxLines
    /\ Len(stages) >= 2 /\ Len(summaries) >= 1
    /\ \E i \in DOMAIN stages : Len(stages[i]) >= 1

\* C10: there is one summary group per KJ line; each summary group is non-empty
\* and ends with its only KJ line; no stage group holds a KJ line.
C10_SummaryShape ==
    ParseReturned =>
        /\ Len(summaries) = Count(Body, IsKJ)
        /\ \A i \in DOMAIN summaries :
              /\ summaries[i] # <<>>
              /\ \A k \in DOMAIN summaries[i] :
                    IsKJ(summaries[i][k]) <=> k = Len(summaries[i])
        /\ \A i \in DOMAIN stages : \A k \in DOMAIN stages[i] : ~IsKJ(stages[i][k])

C10_Witness ==
    /\ ParseReturned
    /\ Count(Body, IsKJ) = 2
    /\ Len(summaries) = 2
    /\ \E i \in DOMAIN summaries : Len(summaries[i]) >= 2

----------------------------------------------------------------------------
(* Properties of the frames and summaries *)

StageReturned == entry = "raw_stage_to_df" /\ pc \in {"done", "raised"}

\* C2 as stated: a non-empty series parsed with drop_hr set is summarized
\* without error, and the summary carries no heart-rate value.
C2_DropHrSummarizes ==
    (StageReturned /\ drop_hr /\ stage_frames # <<>>) =>
        /\ pc = "done"
        /\ result.ok
        /\ "avg_hr" \notin DOMAIN result.val
        /\ "max_hr" \notin DOMAIN result.val

BuildReturned == entry = "build_dfs" /\ pc = "done"

MilesOf(lines) == [i \in DOMAIN lines |-> lines[i].cells[1]]
ClockSeconds(lines) == [i \in DOMAIN lines |-> lines[i].clock[1] * 60 + lines[i].clock[2]]

\* the raw lines behind summary i: the whole ride for the first, stage i - 1 after
SeriesLines(i) == IF i = 1 THEN Flatten(raw_stages) ELSE raw_stages[i - 1]

\* C4: total_distance of every summary (full ride or stage) is the largest minus
\* the smallest distance reading of its series, and differs from the largest
\* reading whenever the smallest is not zero.
C4_DistanceIsDelta ==
    BuildReturned =>
        \A i \in DOMAIN stage_summaries :
            LET m == MilesOf(SeriesLines(i)) IN
            /\ stage_summaries[i].total_distance = Max(m) - Min(m)
            /\ Min(m) # 0 => stage_summaries[i].total_distance # Max(m)

C4_Witness ==
    /\ BuildReturned
    /\ Len(stage_summaries) = 3
    /\ stage_summaries[1].total_distance = 15
    /\ stage_summaries[2].total_distance = 0
    /\ stage_summaries[3].total_distance = 15

MultiStage == Len(raw_stages) >= 2 /\ \A i \in DOMAIN raw_stages : raw_stages[i] # <<>>

\* C6: for two or more non-empty stage groups the full ride is the stages
\* stacked in order with their elapsed-seconds values unchanged, and the full
\* ride's total_seconds is the last value of the last stage minus the first
\* value of the first stage.
C6_ConcatKeepsIndex ==
    (entry = "build_dfs" /\ pc \in {"summarize", "done"} /\ MultiStage) =>
        /\ \A i \in DOMAIN raw_stages : stage_frames[i].index = ClockSeconds(raw_stages[i])
        /\ full_ride.index = Flatten([i \in DOMAIN raw_stages |-> ClockSeconds(raw_stages[i])])
        /\ full_ride.data = Flatten([i \in DOMAIN raw_stages |->
                                        [k \in DOMAIN raw_stages[i] |-> raw_stages[i][k].cells]])
        /\ pc = "done" =>
              LET first == raw_stages[1]
                  last == raw_stages[Len(raw_stages)]
              IN  stage_summaries[1].total_seconds =
                      ClockSeconds(last)[Len(last)] - ClockSeconds(first)[1]

C6_Witness ==
    /\ BuildReturned /\ MultiStage
    /\ full_ride.index = <<1, 60, 2, 60>>
    /\ stage_summaries[1].total_seconds = 59

----------------------------------------------------------------------------
(* Properties of CycleWorkout.from_csv, checked under SpecCsv *)

HasNoDataRow(group) == \A k \in DOMAIN group : ~IsDataRow(group[k])
Segmented == entry = "from_csv" /\ pc \notin {"stem", "open", "loop"}

ParsesAsYMD(w) ==
    \E j \in {7, 8} :
        /\ Len(w) \in (j + 1)..(j + 2)
        /\ w[5] = "-" /\ w[j] = "-"
        /\ \A k \in DOMAIN w : k \notin {5, j} => IsDigit(w[k])
        /\ LET y == DecimalValue(SubSeq(w, 1, 4))
               m == DecimalValue(SubSeq(w, 6, j - 1))
               d == DecimalValue(SubSeq(w, j + 1, Len(w)))
           IN  y >= 1 /\ m \in 1..12 /\ d \in 1..DaysInMonth(y, m)

\* a word made of three non-empty runs of digits separated by two dashes,
\* naming a calendar day of a year in 1..9999
ReadsAsDate(w) ==
    \E i, j \in DOMAIN w :
        /\ 1 < i /\ i + 1 < j /\ j < Len(w)
        /\ w[i] = "-" /\ w[j] = "-"
        /\ \A k \in DOMAIN w : k \notin {i, j} => IsDigit(w[k])
        /\ LET y == DecimalValue(SubSeq(w, 1, i - 1))
               m == DecimalValue(SubSeq(w, i + 1, j - 1))
               d == DecimalValue(SubSeq(w, j + 1, Len(w)))
           IN  y \in 1..9999 /\ m \in 1..12 /\ d \in 1..DaysInMonth(y, m)

FailedBeforeOpen ==
    /\ pc = "raised"
    /\ ~result.ok
    /\ pos = 1
    /\ stages = <<>> /\ summaries = <<>> /\ data_chunk = <<>>
    /\ stage_summaries = <<>>

\* C7 as stated: a stem of fewer than three words, or whose first word does not
\* parse as a YYYY-MM-DD date, makes from_csv fail before the file is opened.
C7_Original ==
    (entry = "from_csv" /\ pc # "stem"
        /\ (Len(filepath) < 3 \/ ~ParsesAsYMD(filepath[1]))) => FailedBeforeOpen

\* C7 amended: a stem of fewer than three words, or whose first word is not
\* three dash-separated decimal numbers naming a valid year (1..9999), month
\* and day, makes from_csv fail before the file is opened, with no workout.
C7_Amended ==
    (entry = "from_csv" /\ pc # "stem"
        /\ (Len(filepath) < 3 \/ ~ReadsAsDate(filepath[1]))) => FailedBeforeOpen

C7_Witness ==
    /\ entry = "from_csv" /\ FailedBeforeOpen
    /\ Len(filepath) = 3
    /\ filepath[1] = <<"2", "0", "2", "3", "-", "0", "2", "-", "3", "0">>
    /\ result.exc = "ValueError"

====
